---- MODULE Spec2Model ----
(***************************************************************************)
(* A model of rusty-pstree (src/main.rs): main() reads the process         *)
(* records, treefy_proc links them into a ProcessTree, filter_unique       *)
(* optionally collapses duplicate leaves, parse_config resolves the        *)
(* presentation options and ProcessTree::print walks the tree with an      *)
(* explicit stack, driving a ptree TreeBuilder.                            *)
(*                                                                         *)
(* A node is identified by the position of its record in proc_info_vec     *)
(* (treefy_proc allocates exactly one ProcessNode per record, in order).   *)
(* The TreeBuilder is represented by the sequence of calls print makes on  *)
(* it; Replay gives the structure those calls accumulate.                  *)
(***************************************************************************)
EXTENDS Integers, Sequences, FiniteSets, TLC

VARIABLES
    proc_info_vec,  \* Vec<ProcessInfo> returned by get_process_info
    args,           \* the parsed command line (struct Args)
    pc,             \* position in main
    root,           \* ProcessTree.root (0 before treefy_proc returns)
    children,       \* ProcessNode.children of every node
    config,         \* PsTreePrintConfig built by parse_config
    stack,          \* print's stack of (node, depth)
    calls,          \* the calls print has made on tree_builder
    tree            \* the StringItem returned by tree_builder.build()

vars == <<proc_info_vec, args, pc, root, children, config, stack, calls, tree>>

----------------------------------------------------------------------------
(* Bounds of the explored inputs *)

MaxRecs == 3

MaxPid == 3

PrintRecs == 4

UniqueRecs == 4

MaxLen == 6

MaxDepthArg == 0

U8Max == 255

----------------------------------------------------------------------------
(* Sequence helpers *)

Last(s) == s[Len(s)]

Front(s) == SubSeq(s, 1, Len(s) - 1)

Rev(s) == [k \in 1..Len(s) |-> s[Len(s) + 1 - k]]

Range(s) == {s[k] : k \in 1..Len(s)}

Max(a, b) == IF a >= b THEN a ELSE b

Nodes == 1..Len(proc_info_vec)

----------------------------------------------------------------------------
(* treefy_proc: src/main.rs 194-218 *)

\* HashMap<u32, ProcessNodeRef>::new(): a function on the keys inserted so far
EmptyMap == [p \in {} |-> 0]

MapInsert(m, key, val) ==
    [p \in (DOMAIN m) \cup {key} |-> IF p = key THEN val ELSE m[p]]

NoChildren(vec) == [n \in 1..Len(vec) |-> <<>>]

\* iter().find(|proc| proc.pid == root_pid): the first match, 0 when there is none
FindPid(vec, pid) ==
    LET hits == {k \in 1..Len(vec) : vec[k].pid = pid}
    IN  IF hits = {} THEN 0 ELSE CHOOSE k \in hits : \A h \in hits : k <= h

\* A mutated root choice that ignores the requested pid.
FirstProcIgnoringRequest(vec, root_pid) ==
    IF Len(vec) = 0 THEN 0 ELSE 1

\* A mutated root choice that falls back to the first record instead of failing.
FirstProcFallback(vec, root_pid) ==
    IF Len(vec) = 0 THEN 0
    ELSE IF root_pid = 0 \/ FindPid(vec, root_pid) = 0 THEN 1
    ELSE FindPid(vec, root_pid)

\* lines 198-205: the position of first_proc, or 0 when unwrap / expect panics
FirstProc(vec, root_pid) ==
    IF root_pid = 0
    THEN IF Len(vec) = 0 THEN 0 ELSE 1
    ELSE FindPid(vec, root_pid)

\* A mutated add_child that stores the handle twice.
AddChildTwice(kids, child) == Append(Append(kids, child), child)

\* ProcessNode::add_child, lines 132-135
AddChild(kids, child) == Append(kids, child)

\* A mutated loop body that resolves the parent against the whole input.
LinkStepWholeInput(st, vec, i) ==
    LET proc_info == vec[i]
        parent == IF proc_info.ppid = 0 THEN 0 ELSE FindPid(vec, proc_info.ppid)
    IN  [node_map |-> MapInsert(st.node_map, proc_info.pid, i),
         children |-> IF parent # 0
                      THEN [st.children EXCEPT ![parent] = AddChild(@, i)]
                      ELSE st.children]

\* one iteration of the loop at lines 207-215; node_ptr is the fresh node i
LinkStep(st, vec, i) ==
    LET proc_info == vec[i]
        node_ptr == i
        linked == proc_info.ppid # 0 /\ proc_info.ppid \in DOMAIN st.node_map
    IN  [node_map |-> MapInsert(st.node_map, proc_info.pid, node_ptr),
         children |-> IF linked
                      THEN [st.children EXCEPT
                                ![st.node_map[proc_info.ppid]] = AddChild(@, node_ptr)]
                      ELSE st.children]

RECURSIVE LinkLoop(_, _, _)
LinkLoop(st, vec, i) ==
    IF i > Len(vec) THEN st ELSE LinkLoop(LinkStep(st, vec, i), vec, i + 1)

\* the whole function: ok = FALSE when it panics at line 199 or 203
treefy_proc(vec, root_pid) ==
    LET first_proc == FirstProc(vec, root_pid)
    IN  IF first_proc = 0
        THEN [ok |-> FALSE, root |-> 0, children |-> NoChildren(vec)]
        ELSE LET st == LinkLoop([node_map |-> EmptyMap, children |-> NoChildren(vec)],
                                vec, 1)
             IN  [ok |-> TRUE,
                  root |-> st.node_map[vec[first_proc].pid],
                  children |-> st.children]

----------------------------------------------------------------------------
(* ProcessTree::filter_unique: src/main.rs 100-113 *)

\* the closure at lines 106-110; dedup_by hands it (current, previous kept)
SameBucket(p1, p2, ch, vec) ==
    /\ Len(ch[p1]) = 0
    /\ Len(ch[p1]) = 0
    /\ vec[p1].name = vec[p2].name

\* Vec::dedup_by: an element is dropped when the closure accepts it against
\* the last element kept
RECURSIVE DedupBy(_, _, _, _, _)
DedupBy(kids, k, kept, ch, vec) ==
    IF k > Len(kids) THEN kept
    ELSE IF kept # <<>> /\ SameBucket(kids[k], Last(kept), ch, vec)
         THEN DedupBy(kids, k + 1, kept, ch, vec)
         ELSE DedupBy(kids, k + 1, Append(kept, kids[k]), ch, vec)

RECURSIVE FilterLoop(_, _, _)
FilterLoop(stk, ch, vec) ==
    IF stk = <<>> THEN ch
    ELSE LET node_ref == Last(stk)
             ch2 == [ch EXCEPT ![node_ref] = DedupBy(@, 1, <<>>, ch, vec)]
         IN  FilterLoop(Front(stk) \o ch2[node_ref], ch2, vec)

filter_unique(rt, ch, vec) == FilterLoop(<<rt>>, ch, vec)

----------------------------------------------------------------------------
(* parse_rgb, parse_color, parse_config: src/main.rs 253-300 *)
(* A string is a sequence of one-character strings.                         *)

NoString == [some |-> FALSE, str |-> <<>>]

SomeString(str) == [some |-> TRUE, str |-> str]

NoColor == [kind |-> "None", name |-> <<>>, rgb |-> <<>>]

Panicked == [kind |-> "Panic", name |-> <<>>, rgb |-> <<>>]

NamedColor(name) == [kind |-> "Named", name |-> name, rgb |-> <<>>]

RgbColor(r, g, b) == [kind |-> "RGB", name |-> <<>>, rgb |-> <<r, g, b>>]

DigitChars == <<"0", "1", "2", "3", "4", "5", "6", "7", "8", "9">>

IsDigit(c) == \E k \in 1..Len(DigitChars) : DigitChars[k] = c

DigitVal(c) == (CHOOSE k \in 1..Len(DigitChars) : DigitChars[k] = c) - 1

UpperChars ==
    <<"A", "B", "C", "D", "E", "F", "G", "H", "I", "J", "K", "L", "M",
      "N", "O", "P", "Q", "R", "S", "T", "U", "V", "W", "X", "Y", "Z">>

LowerChars ==
    <<"a", "b", "c", "d", "e", "f", "g", "h", "i", "j", "k", "l", "m",
      "n", "o", "p", "q", "r", "s", "t", "u", "v", "w", "x", "y", "z">>

ToLowerChar(c) ==
    IF \E k \in 1..Len(UpperChars) : UpperChars[k] = c
    THEN LowerChars[CHOOSE k \in 1..Len(UpperChars) : UpperChars[k] = c]
    ELSE c

\* str::to_lowercase, line 271
to_lowercase(str) == [k \in 1..Len(str) |-> ToLowerChar(str[k])]

\* the match arms at lines 272-279
Palette ==
    { <<"b", "l", "a", "c", "k">>, <<"r", "e", "d">>, <<"g", "r", "e", "e", "n">>,
      <<"y", "e", "l", "l", "o", "w">>, <<"b", "l", "u", "e">>,
      <<"p", "u", "r", "p", "l", "e">>, <<"c", "y", "a", "n">>,
      <<"w", "h", "i", "t", "e">> }

\* the position just after the longest run of digits that starts at i
RECURSIVE RunEnd(_, _)
RunEnd(str, i) ==
    IF i <= Len(str) /\ IsDigit(str[i]) THEN RunEnd(str, i + 1) ELSE i

IsComma(str, i) == i <= Len(str) /\ str[i] = ","

\* the regex of line 255, (?P<r>\d+),(?P<g>\d+),(?P<b>\d+), tried at position i:
\* every \d+ is greedy and must be followed by a comma or by the end of the match
MatchAt(str, i) ==
    LET r_end == RunEnd(str, i)
        g_end == RunEnd(str, r_end + 1)
        b_end == RunEnd(str, g_end + 1)
    IN  [ok |-> /\ r_end > i
                /\ IsComma(str, r_end)
                /\ g_end > r_end + 1
                /\ IsComma(str, g_end)
                /\ b_end > g_end + 1,
         r |-> SubSeq(str, i, r_end - 1),
         g |-> SubSeq(str, r_end + 1, g_end - 1),
         b |-> SubSeq(str, g_end + 1, b_end - 1)]

\* captures_iter(..).next(): the leftmost match, unanchored
Captures(str) ==
    LET starts == {i \in 1..Len(str) : MatchAt(str, i).ok}
    IN  IF starts = {} THEN [ok |-> FALSE, r |-> <<>>, g |-> <<>>, b |-> <<>>]
        ELSE MatchAt(str, CHOOSE i \in starts : \A j \in starts : i <= j)

\* the value of a run of digits, saturated just above the u8 range so that long
\* runs stay small
RECURSIVE DigitsValue(_, _, _)
DigitsValue(ds, k, acc) ==
    IF k > Len(ds) THEN acc
    ELSE LET v == acc * 10 + DigitVal(ds[k])
         IN  DigitsValue(ds, k + 1, IF v > U8Max THEN U8Max + 1 ELSE v)

\* str::parse::<u8>, line 260: -1 stands for Err
ParseU8(ds) ==
    LET v == DigitsValue(ds, 1, 0)
    IN  IF v > U8Max THEN -1 ELSE v

\* lines 253-267: unwrap at line 256 panics when nothing matches
parse_rgb(rgb_str) ==
    LET capture == Captures(rgb_str)
    IN  IF ~capture.ok THEN Panicked
        ELSE IF ParseU8(capture.r) < 0 THEN NoColor
        ELSE IF ParseU8(capture.g) < 0 THEN NoColor
        ELSE IF ParseU8(capture.b) < 0 THEN NoColor
        ELSE RgbColor(ParseU8(capture.r), ParseU8(capture.g), ParseU8(capture.b))

\* lines 269-282
parse_color(color_str) ==
    IF to_lowercase(color_str) \in Palette
    THEN NamedColor(to_lowercase(color_str))
    ELSE parse_rgb(color_str)

\* Option::and_then(|color_str| parse_color(&color_str)), lines 288-290
AndThenParseColor(opt) == IF opt.some THEN parse_color(opt.str) ELSE NoColor

\* PsTreePrintConfig::new(), lines 146-154; depth.set = FALSE is the library default
NewConfig ==
    [show_pid |-> FALSE, root_pid |-> 0,
     leaf_foreground |-> NoColor, leaf_background |-> NoColor,
     branch_foreground |-> NoColor, depth |-> [set |-> FALSE, val |-> 0]]

\* lines 284-300; ok = FALSE when one of the parse_color calls panics
parse_config(a) ==
    LET fg == AndThenParseColor(a.node_color)
        bg == AndThenParseColor(a.background)
        br == AndThenParseColor(a.branch_color)
    IN  IF fg.kind = "Panic" \/ bg.kind = "Panic" \/ br.kind = "Panic"
        THEN [ok |-> FALSE, config |-> NewConfig]
        ELSE [ok |-> TRUE,
              config |-> [show_pid |-> a.show_pid, root_pid |-> a.root_pid,
                          leaf_foreground |-> fg, leaf_background |-> bg,
                          branch_foreground |-> br,
                          depth |-> IF a.depth.some
                                    THEN [set |-> TRUE, val |-> a.depth.val]
                                    ELSE NewConfig.depth]]

----------------------------------------------------------------------------
(* ProcessTree::print: src/main.rs 56-98 *)

\* lines 70-74
NodeStr(node, cfg, vec) ==
    IF cfg.show_pid
    THEN <<"[", vec[node].pid, "] ", vec[node].name>>
    ELSE <<vec[node].name>>

Call(op, node, text) == [op |-> op, node |-> node, text |-> text]

\* lines 76-82: which builder call an entry gets
EmitCall(node, depth, ch, cfg, vec) ==
    IF depth = 0 THEN Call("new", node, NodeStr(node, cfg, vec))
    ELSE IF Len(ch[node]) > 0 THEN Call("begin_child", node, NodeStr(node, cfg, vec))
    ELSE Call("add_empty_child", node, NodeStr(node, cfg, vec))

\* A mutated push that keeps the children in their stored order.
PushChildrenInOrder(node, depth, ch, cfg) ==
    [k \in 1..Len(ch[node]) |-> <<ch[node][k], depth + 1>>]

\* A mutated push that stops at the configured depth.
PushChildrenDepthLimited(node, depth, ch, cfg) ==
    IF cfg.depth.set /\ depth >= cfg.depth.val THEN <<>>
    ELSE [k \in 1..Len(ch[node]) |-> <<Rev(ch[node])[k], depth + 1>>]

\* lines 84-86: the entries pushed for node.children.iter().rev()
PushChildren(node, depth, ch, cfg) ==
    [k \in 1..Len(ch[node]) |-> <<Rev(ch[node])[k], depth + 1>>]

\* A mutated count that closes one branch too many.
CloseCountOneMore(depth, next_depth) == Max(0, depth - next_depth + 1)

\* line 90: the length of the range 0 .. depth - next_depth
CloseCount(depth, next_depth) == Max(0, depth - next_depth)

EndCalls(n) == [k \in 1..n |-> Call("end_child", 0, <<>>)]

(* The structure a sequence of calls leaves in the TreeBuilder.  An item is  *)
(* the position of the call that created it; begin_child appends under the   *)
(* item found by following last children level times, end_child lowers the   *)
(* level, add_empty_child is begin_child followed by end_child.              *)

\* the item reached by following last children level times (the walk stops at
\* an item without children, where the library would have nothing to unwrap)
RECURSIVE Walk(_, _, _)
Walk(kids, from, level) ==
    IF level <= 0 \/ kids[from] = <<>> THEN from
    ELSE Walk(kids, Last(kids[from]), level - 1)

ReplayStep(tb, cs, k) ==
    LET c == cs[k] IN
    IF c.op = "new"
    THEN [top |-> k, kids |-> [j \in 1..Len(cs) |-> <<>>], level |-> 0]
    ELSE IF c.op = "end_child"
    THEN [tb EXCEPT !.level = @ - 1]
    ELSE LET parent == Walk(tb.kids, tb.top, tb.level)
         IN  [top |-> tb.top,
              kids |-> [tb.kids EXCEPT ![parent] = Append(@, k)],
              level |-> IF c.op = "begin_child" THEN tb.level + 1 ELSE tb.level]

RECURSIVE ReplayFrom(_, _, _)
ReplayFrom(tb, cs, k) ==
    IF k > Len(cs) THEN tb ELSE ReplayFrom(ReplayStep(tb, cs, k), cs, k + 1)

Replay(cs) == ReplayFrom([top |-> 0, kids |-> <<>>, level |-> 0], cs, 1)

NoTree == [built |-> FALSE, top |-> 0, kids |-> <<>>]

\* line 96: build() hands back the accumulated item, open branches or not
Build(cs) == [built |-> TRUE, top |-> Replay(cs).top, kids |-> Replay(cs).kids]

----------------------------------------------------------------------------
(* The inputs *)

Names == {"a", "b"}

\* the name given to a record where the names play no part
DefaultName(pid) == IF pid % 2 = 1 THEN "a" ELSE "b"

PlainRecords(maxPid) ==
    {[pid |-> p, ppid |-> q, name |-> DefaultName(p)] : p \in 1..maxPid, q \in 0..maxPid}

UniquePids(vec) == \A i, j \in 1..Len(vec) : vec[i].pid = vec[j].pid => i = j

\* get_process_info sorts by pid, line 190
SortedByPid(vec) == \A i, j \in 1..Len(vec) : i < j => vec[i].pid < vec[j].pid

NoDepth == [some |-> FALSE, val |-> 0]

SomeDepth(d) == [some |-> TRUE, val |-> d]

MakeArgs(rp, uq, dp, sp, nc, bg, bc) ==
    [root_pid |-> rp, unique |-> uq, depth |-> dp, show_pid |-> sp,
     node_color |-> nc, background |-> bg, branch_color |-> bc]

Start(vec, a) ==
    /\ proc_info_vec = vec
    /\ args = a
    /\ pc = "treefy"
    /\ root = 0
    /\ children = NoChildren(vec)
    /\ config = NewConfig
    /\ stack = <<>>
    /\ calls = <<>>
    /\ tree = NoTree

----------------------------------------------------------------------------
(* main: src/main.rs 302-309 *)

\* line 306, then line 307's test of args.unique
Treefy ==
    /\ pc = "treefy"
    /\ LET res == treefy_proc(proc_info_vec, args.root_pid)
       IN  IF res.ok
           THEN /\ root' = res.root
                /\ children' = res.children
                /\ pc' = IF args.unique THEN "filter_unique" ELSE "parse_config"
           ELSE /\ pc' = "aborted"
                /\ UNCHANGED <<root, children>>
    /\ UNCHANGED <<proc_info_vec, args, config, stack, calls, tree>>

\* line 307
FilterUnique ==
    /\ pc = "filter_unique"
    /\ children' = filter_unique(root, children, proc_info_vec)
    /\ pc' = "parse_config"
    /\ UNCHANGED <<proc_info_vec, args, root, config, stack, calls, tree>>

\* line 308: the argument of print
ParseConfig ==
    /\ pc = "parse_config"
    /\ LET res == parse_config(args)
       IN  IF res.ok
           THEN config' = res.config /\ pc' = "print_enter"
           ELSE config' = config /\ pc' = "aborted"
    /\ UNCHANGED <<proc_info_vec, args, root, children, stack, calls, tree>>

\* lines 58-60
PrintEnter ==
    /\ pc = "print_enter"
    /\ stack' = <<<<root, 0>>>>
    /\ calls' = <<Call("new", 0, <<>>)>>
    /\ pc' = "print"
    /\ UNCHANGED <<proc_info_vec, args, root, children, config, tree>>

\* one iteration of the loop at lines 62-94
PrintStep ==
    /\ pc = "print"
    /\ stack # <<>>
    /\ LET node == Last(stack)[1]
           depth == Last(stack)[2]
           pushed == Front(stack) \o PushChildren(node, depth, children, config)
           closes == IF pushed # <<>> THEN CloseCount(depth, Last(pushed)[2]) ELSE 0
       IN  /\ stack' = pushed
           /\ calls' = calls
                       \o <<EmitCall(node, depth, children, config, proc_info_vec)>>
                       \o EndCalls(closes)
           /\ pc' = IF pushed = <<>> THEN "build" ELSE "print"
    /\ UNCHANGED <<proc_info_vec, args, root, children, config, tree>>

\* lines 96-97
PrintBuild ==
    /\ pc = "build"
    /\ tree' = Build(calls)
    /\ pc' = "done"
    /\ UNCHANGED <<proc_info_vec, args, root, children, config, stack, calls>>

Next ==
    \/ Treefy
    \/ FilterUnique
    \/ ParseConfig
    \/ PrintEnter
    \/ PrintStep
    \/ PrintBuild

DepthArgs == {NoDepth} \cup {SomeDepth(d) : d \in 0..MaxDepthArg}

\* treefy_proc over every order of the records; no colors, names fixed by pid
Init ==
    \E n \in 0..MaxRecs :
        \E vec \in [1..n -> PlainRecords(MaxPid)], rp \in 0..MaxPid, uq \in BOOLEAN :
            /\ UniquePids(vec)
            /\ Start(vec, MakeArgs(rp, uq, NoDepth, FALSE, NoString, NoString, NoString))

Spec == Init /\ [][Next]_vars

\* records with the pids 1..n in ascending order, as get_process_info returns
\* them, with the parents pp and the names nm
AscendingVec(n, pp, nm) ==
    [i \in 1..n |-> [pid |-> i, ppid |-> pp[i], name |-> nm[i]]]

\* every choice of parent, with and without --depth, --unique and --root-pid
InitPrint ==
    \E n \in 1..PrintRecs :
        \E pp \in [1..n -> 0..n], rp \in {0, 2}, uq \in BOOLEAN, dp \in DepthArgs :
            Start(AscendingVec(n, pp, [i \in 1..n |-> DefaultName(i)]),
                  MakeArgs(rp, uq, dp, FALSE, NoString, NoString, NoString))

SpecPrint == InitPrint /\ [][Next]_vars

\* every choice of parent and name, under --unique
InitUnique ==
    \E n \in 1..UniqueRecs :
        \E pp \in [1..n -> 0..n], nm \in [1..n -> Names] :
            Start(AscendingVec(n, pp, nm),
                  MakeArgs(0, TRUE, NoDepth, FALSE, NoString, NoString, NoString))

SpecUnique == InitUnique /\ [][Next]_vars

\* color strings: every string over a small alphabet, and some written out
ColorAlphabet == {"2", "9", ",", "x"}

ColorSamples ==
    { <<"n", "o", "t", "a", "c", "o", "l", "o", "r">>,
      <<"3", "0", "0", ",", "0", ",", "0">>,
      <<"2", "5", "5", ",", "2", "5", "5", ",", "0">>,
      <<"r", "e", "d">>, <<"R", "e", "d">>, <<"W", "H", "I", "T", "E">>,
      <<"r", "e", "d", "x">> }

ColorVec ==
    <<[pid |-> 1, ppid |-> 0, name |-> "a"], [pid |-> 2, ppid |-> 1, name |-> "b"],
      [pid |-> 3, ppid |-> 1, name |-> "b"]>>

ColorStart(nc) ==
    \E sp \in BOOLEAN,
       bg \in {NoString, SomeString(<<"c", "y", "a", "n">>)},
       bc \in {NoString, SomeString(<<"9", ",", "2", ",", "9">>)} :
        Start(ColorVec, MakeArgs(0, TRUE, NoDepth, sp, SomeString(nc), bg, bc))

InitColor ==
    \/ \E nc \in ColorSamples : ColorStart(nc)
    \/ \E n \in 0..MaxLen : \E nc \in [1..n -> ColorAlphabet] : ColorStart(nc)

SpecColor == InitColor /\ [][Next]_vars

----------------------------------------------------------------------------
(* What the claims speak of, stated from the records and the calls *)

Ppid(n) == proc_info_vec[n].ppid

Pid(n) == proc_info_vec[n].pid

\* the nodes print has emitted so far, in order
IsEmit(c) == c.op # "end_child" /\ c.node # 0

Emitted == [k \in 1..Len(SelectSeq(calls, IsEmit)) |-> SelectSeq(calls, IsEmit)[k].node]

PosIn(seq, x) == CHOOSE k \in 1..Len(seq) : seq[k] = x

NoRepeat(seq) == \A i, j \in 1..Len(seq) : seq[i] = seq[j] => i = j

CountOp(op) == Cardinality({k \in 1..Len(calls) : calls[k].op = op})

\* the record a record names as its parent and that precedes it, 0 if none
RecordParent(n) ==
    LET cands == {p \in 1..(n - 1) : Ppid(n) # 0 /\ Pid(p) = Ppid(n)}
    IN  IF cands = {} THEN 0 ELSE CHOOSE p \in cands : TRUE

RECURSIVE Descends(_, _)
Descends(n, r) == n = r \/ (RecordParent(n) # 0 /\ Descends(RecordParent(n), r))

\* the nodes linked below rt
RECURSIVE ReachFrom(_)
ReachFrom(set) ==
    LET more == set \cup UNION {Range(children[n]) : n \in set}
    IN  IF more = set THEN set ELSE ReachFrom(more)

Reach == IF root = 0 THEN {} ELSE ReachFrom({root})

\* the node that holds n as a child, 0 if none
TreeParent(n) ==
    LET ps == {p \in Nodes : n \in Range(children[p])}
    IN  IF ps = {} THEN 0 ELSE CHOOSE p \in ps : TRUE

RECURSIVE DepthOf(_)
DepthOf(n) == IF n = root \/ TreeParent(n) = 0 THEN 0 ELSE 1 + DepthOf(TreeParent(n))

Built == pc \notin {"treefy", "aborted"}

\* the tree as treefy_proc returned it
Fresh == pc = "filter_unique" \/ (Built /\ ~args.unique)

----------------------------------------------------------------------------
(* C1 *)

\* the collapsing the claim describes: cur goes when prev and cur are both
\* childless and carry the same name
RECURSIVE ClaimedDedup(_, _, _, _)
ClaimedDedup(kids, k, kept, ch) ==
    IF k > Len(kids) THEN kept
    ELSE IF /\ kept # <<>>
            /\ Len(ch[Last(kept)]) = 0
            /\ Len(ch[kids[k]]) = 0
            /\ proc_info_vec[Last(kept)].name = proc_info_vec[kids[k]].name
         THEN ClaimedDedup(kids, k + 1, kept, ch)
         ELSE ClaimedDedup(kids, k + 1, Append(kept, kids[k]), ch)

\* C1: after filter_unique every node reachable from the root has lost exactly
\* the children cur whose predecessor prev is, like cur, childless and of the
\* same name; [A(has children), A(leaf)] stays as it is.
C1_CollapsesOnlyChildlessPairs ==
    (args.unique /\ pc \notin {"treefy", "aborted", "filter_unique"}) =>
        LET before == treefy_proc(proc_info_vec, args.root_pid).children
        IN  \A n \in Reach : children[n] = ClaimedDedup(before[n], 1, <<>>, before)

----------------------------------------------------------------------------
(* C2 *)

IsTriple(str) ==
    \E i, j \in 1..Len(str) :
        /\ 1 < i /\ i + 1 < j /\ j < Len(str)
        /\ str[i] = "," /\ str[j] = ","
        /\ \A k \in 1..Len(str) : k \notin {i, j} => IsDigit(str[k])
        /\ ParseU8(SubSeq(str, 1, i - 1)) >= 0
        /\ ParseU8(SubSeq(str, i + 1, j - 1)) >= 0
        /\ ParseU8(SubSeq(str, j + 1, Len(str))) >= 0

\* C2: a node color that is neither a palette name nor an R,G,B triple of
\* 0-255 integers never aborts the run: parse_config completes and leaves
\* the color unset.
C2_InvalidColorIsNoColor ==
    (/\ pc \notin {"treefy", "filter_unique", "parse_config"}
     /\ args.node_color.some
     /\ to_lowercase(args.node_color.str) \notin Palette
     /\ ~IsTriple(args.node_color.str))
        => (pc # "aborted" /\ config.leaf_foreground = NoColor)

----------------------------------------------------------------------------
(* C3 *)

\* C3: every emitted non-root node is a terminal label when it has no children
\* and an opened branch when it has some, and when build() is called every
\* opened branch has been closed: as many end_child as begin_child calls.
C3_BranchesClosedAtBuild ==
    /\ \A k \in 1..Len(calls) :
           /\ calls[k].op = "add_empty_child" => Len(children[calls[k].node]) = 0
           /\ calls[k].op = "begin_child" => Len(children[calls[k].node]) > 0
    /\ pc = "done" => CountOp("end_child") = CountOp("begin_child")

----------------------------------------------------------------------------
(* C4 *)

\* C4: with no transform applied, two siblings are emitted by print in the
\* order their records have in the input of treefy_proc.
C4_SiblingsInInputOrder ==
    ~args.unique =>
        \A a, b \in Range(Emitted) :
            (a < b /\ TreeParent(a) # 0 /\ TreeParent(a) = TreeParent(b))
                => PosIn(Emitted, a) < PosIn(Emitted, b)

C4_Witness ==
    /\ pc = "done" /\ ~args.unique
    /\ \E a, b \in Range(Emitted) :
           /\ a < b /\ TreeParent(a) # 0 /\ TreeParent(a) = TreeParent(b)
           /\ Pid(a) > Pid(b)

----------------------------------------------------------------------------
(* C5 *)

\* C5: whatever the order and the parent pids of the records, print emits only
\* the root and nodes that descend from it, none of them twice; no node is on
\* the stack twice or again after it was emitted, so the stack runs empty.
C5_RootedNoRepeat ==
    LET onstack == [k \in 1..Len(stack) |-> stack[k][1]]
    IN  /\ NoRepeat(Emitted \o onstack)
        /\ \A n \in Range(Emitted \o onstack) : Descends(n, root)
        /\ pc = "done" => stack = <<>>

C5_Witness ==
    /\ pc = "done"
    /\ Len(Emitted) >= 2
    /\ \E n \in Nodes : Ppid(n) = Pid(n)
    /\ \E n \in Nodes : n \notin Range(Emitted)
    /\ ~SortedByPid(proc_info_vec)

----------------------------------------------------------------------------
(* C6 *)

TargetPid == IF args.root_pid = 0 THEN Pid(1) ELSE args.root_pid

\* C6: the tree treefy_proc returns is rooted at the node of the target root
\* pid (the first record's pid when none is requested) and holds only that
\* node and its descendants, not the root's own parent.
C6_RootIsTarget ==
    Built =>
        /\ root \in Nodes
        /\ Pid(root) = TargetPid
        /\ \A n \in Reach : Descends(n, root)
        /\ RecordParent(root) # 0 => RecordParent(root) \notin Reach

C6_Witness ==
    /\ pc = "parse_config"
    /\ args.root_pid # 0
    /\ root # 1
    /\ RecordParent(root) # 0
    /\ Cardinality(Reach) >= 2

----------------------------------------------------------------------------
(* C7 *)

RootNotFound ==
    args.root_pid # 0 /\ \A n \in Nodes : Pid(n) # args.root_pid

EmptyInput == args.root_pid = 0 /\ Len(proc_info_vec) = 0

\* C7: treefy_proc fails exactly when a requested root pid is absent or when
\* the input is empty with no root requested, and then nothing has been linked
\* or printed; otherwise it returns a tree.
C7_FailsExactlyWhen ==
    pc # "treefy" =>
        /\ (pc = "aborted") <=> (RootNotFound \/ EmptyInput)
        /\ pc = "aborted" =>
               /\ root = 0
               /\ \A n \in Nodes : children[n] = <<>>
               /\ calls = <<>>
               /\ ~tree.built
        /\ pc # "aborted" => root \in Nodes

C7_Witness ==
    /\ pc = "aborted"
    /\ RootNotFound
    /\ \E n \in Nodes : Ppid(n) # 0 /\ RecordParent(n) # 0

----------------------------------------------------------------------------
(* C8 *)

\* the later records that name p as their parent, in input order
RECURSIVE LaterChildren(_, _)
LaterChildren(p, c) ==
    IF c > Len(proc_info_vec) THEN <<>>
    ELSE IF c > p /\ Ppid(c) # 0 /\ Ppid(c) = Pid(p)
         THEN <<c>> \o LaterChildren(p, c + 1)
         ELSE LaterChildren(p, c + 1)

\* C8: after treefy_proc, c is a child of p exactly when c's parent pid is
\* non-zero and is p's pid and p's record precedes c's; the children stand in
\* input order and no node has two parents or is attached twice.
C8_ChildIffEarlierParent ==
    Fresh =>
        /\ \A p \in Nodes : children[p] = LaterChildren(p, 1)
        /\ \A c \in Nodes :
               Cardinality({<<p, k>> \in Nodes \X (1..Len(proc_info_vec)) :
                                k <= Len(children[p]) /\ children[p][k] = c}) <= 1

C8_Witness ==
    /\ Fresh
    /\ \E c \in Nodes : Ppid(c) = Pid(c)
    /\ \E c, p \in Nodes : c < p /\ Ppid(c) = Pid(p)
    /\ \E p \in Nodes : Len(children[p]) >= 1

----------------------------------------------------------------------------
(* C9 *)

\* C9: with --depth D nothing deeper than the cutoff is pushed or handed to
\* the builder (read at its weakest: nodes of depth D + 1 are still visited
\* but not expanded).
C9_NothingBelowCutoff ==
    args.depth.some =>
        /\ \A k \in 1..Len(stack) : stack[k][2] <= args.depth.val + 1
        /\ \A n \in Range(Emitted) : DepthOf(n) <= args.depth.val + 1

\* C9 amended: print's traversal does not read the depth: parse_config stores
\* D in the print configuration and print pushes and emits every node linked
\* below the root, whatever its depth.
C9_TraversalIgnoresDepth ==
    /\ pc \in {"print_enter", "print", "build", "done"} =>
           config.depth = IF args.depth.some
                          THEN [set |-> TRUE, val |-> args.depth.val]
                          ELSE [set |-> FALSE, val |-> 0]
    /\ pc \in {"build", "done"} => Range(Emitted) = Reach

C9_Witness ==
    /\ pc = "done"
    /\ args.depth.some
    /\ \E n \in Range(Emitted) : DepthOf(n) >= args.depth.val + 2

----------------------------------------------------------------------------
(* C10 *)

\* C10: when print is about to pop a node of depth d >= 1, d - 1 branches are
\* open and the innermost of them (the top label when d = 1) is the node's
\* parent; the builder is never asked to close more branches than are open,
\* and what it has accumulated at the end is the process tree.
C10_OpenBranchesMatchDepth ==
    LET tb == Replay(calls)
    IN  /\ tb.level >= 0
        /\ (pc = "print" /\ stack # <<>> /\ Last(stack)[2] >= 1) =>
               /\ tb.level = Last(stack)[2] - 1
               /\ calls[Walk(tb.kids, tb.top, tb.level)].node = TreeParent(Last(stack)[1])
        /\ pc = "done" =>
               \A k \in 1..Len(calls) :
                   IsEmit(calls[k]) =>
                       [j \in 1..Len(tree.kids[k]) |-> calls[tree.kids[k][j]].node]
                           = children[calls[k].node]

C10_Witness ==
    /\ pc = "print" /\ stack # <<>>
    /\ Last(stack)[2] = 1
    /\ calls[Len(calls)].op = "end_child"
    /\ \E k \in 1..Len(calls) : calls[k].op = "begin_child"

====
